---- MODULE Spec2Model ----
(***************************************************************************)
(* Model of the mDNS responder of gonzojive/mdns (server.go): NewServer,   *)
(* the receiver loops (recv / parsePacket / handleQuery / handleQuestion / *)
(* sendResponse), Shutdown, and Announce / announceOnce.                   *)
(***************************************************************************)
EXTENDS Integers, Sequences, FiniteSets, TLC

(***************************************************************************)
(* Bounds of the model.                                                    *)
(***************************************************************************)
MaxPackets == 1      \* datagrams the receiver loops read in one run of Spec
MaxQuestions == 2    \* questions in one query of SpecQuery
NCallers == 2        \* callers of Shutdown
MaxLoopPackets == 2  \* datagrams the receiver loops read in one run of SpecLoop

(***************************************************************************)
(* Program constants.                                                      *)
(***************************************************************************)
mdnsPort == 5353
ipv4mdns == "224.0.0.251"
ipv6mdns == "ff02::fb"
forceUnicastResponses == FALSE
UnicastBit == 32768          \* 1<<15
AnnounceDelay == 2           \* time.Second*2
OpcodeQuery == 0             \* dns.OpcodeQuery

ipv4Addr == [IP |-> ipv4mdns, Port |-> mdnsPort]
ipv6Addr == [IP |-> ipv6mdns, Port |-> mdnsPort]

Fam == {"v4", "v6"}
Callers == 1..NCallers
Tasks == {"imm", "timer"}

(***************************************************************************)
(* Inputs: sender addresses, questions, queries, packets.                  *)
(***************************************************************************)
V4IPs == {"192.168.1.20", ipv4mdns}
Senders == { [IP |-> "192.168.1.20", Port |-> 5353],
             [IP |-> "fe80::1", Port |-> 49152] }

\* addr.IP.To4() != nil
To4NotNil(addr) == addr.IP \in V4IPs

Names == {"foo.local.", "svc.local.", "none.local."}
Qclasses == {1, 1 + UnicastBit}
Questions == [Name : Names, Qclass : Qclasses]
QueryIds == {0, 7}
Opcodes == {0, 1}
Rcodes == {0, 3}

SeqsUpTo(S, n) == UNION { [1..k -> S] : k \in 0..n }

QueriesUpTo(n) ==
    [Id : QueryIds, Opcode : Opcodes, Rcode : Rcodes, Truncated : BOOLEAN,
     Question : SeqsUpTo(Questions, n)]

\* The queries of SpecQuery: every header, up to MaxQuestions questions.
AllQueries == QueriesUpTo(MaxQuestions)

\* The queries of Spec: a query for foo.local. with or without the unicast
\* bit, with a valid or an invalid opcode.
SystemQueries ==
    { q \in QueriesUpTo(1) :
        /\ q.Id = 7 /\ q.Rcode = 0 /\ ~q.Truncated
        /\ Len(q.Question) = 1 /\ q.Question[1].Name = "foo.local."
        /\ q.Opcode # OpcodeQuery => q.Question[1].Qclass = 1 }

Garbage == [garbage |-> TRUE]
NoPacket == [none |-> TRUE]
PacketsOf(queries) ==
    {Garbage} \cup { [from |-> a, query |-> q] : a \in Senders, q \in queries }
AllPackets == PacketsOf(AllQueries)
SystemPackets == PacketsOf(SystemQueries)

(***************************************************************************)
(* Zone (external collaborator): Records(q) is a fixed table on the name;  *)
(* Announcement() returns the current announcement set, which the Zone may *)
(* change.                                                                 *)
(***************************************************************************)
ZoneRecords(q) ==
    CASE q.Name = "foo.local." -> << "A:foo" >>
      [] q.Name = "svc.local." -> << "PTR:svc", "SRV:svc" >>
      [] OTHER -> << >>

AnnouncementSets == { << >>, << "PTR:svc", "SRV:svc" >> }

(***************************************************************************)
(* handleQuestion: (multicastRecs, unicastRecs) for one question.          *)
(***************************************************************************)
\* q.Qclass&(1<<15) != 0, Qclass a uint16
HasUnicastBit(q) == ((q.Qclass % 65536) \div UnicastBit) % 2 = 1

HandleQuestionBoth(q) ==
    [multicastRecs |-> ZoneRecords(q),
     unicastRecs |-> IF HasUnicastBit(q) THEN ZoneRecords(q) ELSE << >>]

HandleQuestion(q) ==
    LET records == ZoneRecords(q) IN
    IF Len(records) = 0
    THEN [multicastRecs |-> << >>, unicastRecs |-> << >>]
    ELSE IF HasUnicastBit(q) \/ forceUnicastResponses
         THEN [multicastRecs |-> << >>, unicastRecs |-> records]
         ELSE [multicastRecs |-> records, unicastRecs |-> << >>]

AccumulateLastOnly(qs, n) ==
    IF n = 0
    THEN [multicastAnswer |-> << >>, unicastAnswer |-> << >>]
    ELSE [multicastAnswer |-> HandleQuestion(qs[n]).multicastRecs,
          unicastAnswer |-> HandleQuestion(qs[n]).unicastRecs]

\* The loop of handleQuery over query.Question: the two accumulated sequences
\* after the first n questions.
RECURSIVE Accumulate(_, _)
Accumulate(qs, n) ==
    IF n = 0
    THEN [multicastAnswer |-> << >>, unicastAnswer |-> << >>]
    ELSE LET prev == Accumulate(qs, n - 1)
             one == HandleQuestion(qs[n])
         IN [multicastAnswer |-> prev.multicastAnswer \o one.multicastRecs,
             unicastAnswer |-> prev.unicastAnswer \o one.unicastRecs]

\* The validation of handleQuery: the error it returns, or "nil".
ValidateNoTruncatedCheck(query) ==
    IF query.Opcode # OpcodeQuery THEN "opcode"
    ELSE IF query.Rcode # 0 THEN "rcode"
    ELSE "nil"

Validate(query) ==
    IF query.Opcode # OpcodeQuery THEN "opcode"
    ELSE IF query.Rcode # 0 THEN "rcode"
    ELSE IF query.Truncated THEN "truncated"
    ELSE "nil"

\* dns.Msg as built by the resp closure and by announceOnce.
Msg(id, answer) ==
    [Id |-> id, Response |-> TRUE, Opcode |-> OpcodeQuery,
     Authoritative |-> TRUE, Truncated |-> FALSE, RecursionDesired |-> FALSE,
     RecursionAvailable |-> FALSE, Rcode |-> 0, Compress |-> TRUE,
     Answer |-> answer]

NilMsg == [nil |-> TRUE]

RespQueryIdAlways(query, answers, unicast) ==
    LET answer == IF unicast THEN answers.unicastAnswer
                  ELSE answers.multicastAnswer
    IN IF Len(answer) = 0 THEN NilMsg ELSE Msg(query.Id, answer)

\* resp := func(unicast bool) *dns.Msg
Resp(query, answers, unicast) ==
    LET id == IF unicast THEN query.Id ELSE 0
        answer == IF unicast THEN answers.unicastAnswer
                  ELSE answers.multicastAnswer
    IN IF Len(answer) = 0 THEN NilMsg ELSE Msg(id, answer)

\* msg.Pack(): the wire header bits and the answer section (Compress is not
\* part of the packet).
Pack(m) ==
    [id |-> m.Id, qr |-> IF m.Response THEN 1 ELSE 0, opcode |-> m.Opcode,
     aa |-> IF m.Authoritative THEN 1 ELSE 0,
     tc |-> IF m.Truncated THEN 1 ELSE 0,
     rd |-> IF m.RecursionDesired THEN 1 ELSE 0,
     ra |-> IF m.RecursionAvailable THEN 1 ELSE 0,
     rcode |-> m.Rcode, answer |-> m.Answer]

(***************************************************************************)
(* State.                                                                  *)
(***************************************************************************)
VARIABLES
    ctor,        \* position of NewServer
    sock,        \* s.ipv4List / s.ipv6List: "unbound", "nil", "open", "closed"
    shutdown,    \* s.shutdown
    chCloses,    \* times close(s.shutdownCh) ran
    closes,      \* times Close() ran on each socket
    panicked,    \* a close of a closed channel happened
    lock,        \* s.shutdownLock: 0 (free) or the caller holding it
    spc,         \* position of each caller of Shutdown
    sret,        \* what each call of Shutdown returned
    rpc,         \* position of each receiver loop (recv)
    synced,      \* the receiver has seen its socket closed (a read failed so)
    cur,         \* the packet the receiver is handling
    npkt,        \* datagrams each receiver has read
    hzone,       \* questions given to Zone.Records in the current handleQuery
    hbuilt,      \* responses built (non-nil) in the current handleQuery
    hret,        \* what parsePacket returned for the current packet
    zoneAnn,     \* what Zone.Announcement() returns now
    timer,       \* the time.AfterFunc timer: "none", "pending", "fired", "stopped"
    clock,       \* time elapsed since time.AfterFunc, up to AnnounceDelay
    apc,         \* position of each run of tryAnnounce
    arecs,       \* records fetched by each run of announceOnce
    aerr,        \* what each run of announceOnce returned
    astart,      \* clock when each run of announceOnce began
    sent         \* every datagram written to a socket

vars == << ctor, sock, shutdown, chCloses, closes, panicked, lock, spc, sret,
           rpc, synced, cur, npkt, hzone, hbuilt, hret, zoneAnn,
           timer, clock, apc, arecs, aerr, astart, sent >>

ctorVars == << ctor >>
shutVars == << shutdown, chCloses, closes, panicked, lock, spc, sret >>
recvVars == << rpc, synced, cur, npkt, hzone, hbuilt, hret >>
zoneVars == << zoneAnn >>
annVars == << timer, clock, apc, arecs, aerr, astart >>

\* One datagram written by conn.WriteToUDP(buf, addr): who wrote it, as its
\* how-manieth datagram, for which packet, on which socket, to which address,
\* the packed message, and the id of the query it answers (<< >> for an
\* announcement).
Datagram(by, pkt, conn, dst, wire, cause) ==
    [by |-> by, seq |-> Cardinality({ d \in sent : d.by = by }) + 1,
     pkt |-> pkt, conn |-> conn, dst |-> dst, wire |-> wire, cause |-> cause]

\* WriteToUDP on a socket: an open socket sends or fails, a closed one fails.
WriteOutcomes(f) == IF sock[f] = "open" THEN {"ok", "err"} ELSE {"err"}

Init ==
    /\ ctor = "listen"
    /\ sock = [f \in Fam |-> "unbound"]
    /\ shutdown = FALSE
    /\ chCloses = 0
    /\ closes = [f \in Fam |-> 0]
    /\ panicked = FALSE
    /\ lock = 0
    /\ spc = [c \in Callers |-> "idle"]
    /\ sret = [c \in Callers |-> "none"]
    /\ rpc = [f \in Fam |-> "off"]
    /\ synced = [f \in Fam |-> FALSE]
    /\ cur = [f \in Fam |-> NoPacket]
    /\ npkt = [f \in Fam |-> 0]
    /\ hzone = [f \in Fam |-> << >>]
    /\ hbuilt = [f \in Fam |-> << >>]
    /\ hret = [f \in Fam |-> "none"]
    /\ zoneAnn \in AnnouncementSets
    /\ timer = "none"
    /\ clock = 0
    /\ apc = [t \in Tasks |-> "none"]
    /\ arecs = [t \in Tasks |-> << >>]
    /\ aerr = [t \in Tasks |-> "none"]
    /\ astart = [t \in Tasks |-> -1]
    /\ sent = {}

(***************************************************************************)
(* NewServer.                                                              *)
(***************************************************************************)
\* net.ListenMulticastUDP for both families; the errors are dropped, a
\* listener that could not be started is nil.
Listen ==
    /\ ctor = "listen"
    /\ \E l4 \in {"nil", "open"}, l6 \in {"nil", "open"} :
           sock' = [f \in Fam |-> IF f = "v4" THEN l4 ELSE l6]
    /\ ctor' = "loop4"
    /\ UNCHANGED << shutVars, recvVars, zoneVars, annVars, sent >>

\* p.SetMulticastLoopback(...) on the v4, then on the v6 packet conn; an error
\* makes NewServer return it.  The call is made on a nil listener as well.
SetMulticastLoopback(f) ==
    /\ ctor = (IF f = "v4" THEN "loop4" ELSE "loop6")
    /\ \E err \in BOOLEAN :
           ctor' = IF err
                   THEN (IF f = "v4" THEN "failed-loopback4"
                         ELSE "failed-loopback6")
                   ELSE IF f = "v4" THEN "loop6" ELSE "check"
    /\ UNCHANGED << sock, shutVars, recvVars, zoneVars, annVars, sent >>

\* NewServer returned an error: from SetMulticastLoopback, or for want of a
\* listener.
Failed == {"failed-loopback4", "failed-loopback6", "failed-nolistener"}

NoListenerNever == FALSE

\* ipv4List == nil && ipv6List == nil
NoListener == sock["v4"] = "nil" /\ sock["v6"] = "nil"

\* if ipv4List != nil { go s.recv(s.ipv4List) }
StartsRecv(f) == sock[f] # "nil"

\* The listener check, the Server value, and the receiver goroutines.
CheckAndStart ==
    /\ ctor = "check"
    /\ IF NoListener
       THEN /\ ctor' = "failed-nolistener"
            /\ UNCHANGED rpc
       ELSE /\ ctor' = "announce"
            /\ rpc' = [f \in Fam |-> IF StartsRecv(f) THEN "test" ELSE "off"]
    /\ UNCHANGED << sock, shutVars, synced, cur, npkt, hzone, hbuilt, hret,
                    zoneVars, annVars, sent >>

\* s.Announce(): the timer is created, then the goroutine; NewServer returns.
Announce ==
    /\ ctor = "announce"
    /\ timer' = "pending"
    /\ clock' = 0
    /\ apc' = [apc EXCEPT !["imm"] = "ready"]
    /\ ctor' = "returned"
    /\ UNCHANGED << sock, shutVars, recvVars, zoneVars, arecs, aerr, astart,
                    sent >>

(***************************************************************************)
(* Shutdown.                                                               *)
(***************************************************************************)
LockIgnored == TRUE

\* s.shutdownLock.Lock() goes through when the mutex is free.
LockFree == lock = 0

ShutdownLock(c) ==
    /\ ctor = "returned"
    /\ spc[c] = "idle"
    /\ LockFree
    /\ lock' = c
    /\ spc' = [spc EXCEPT ![c] = "check"]
    /\ UNCHANGED << ctorVars, sock, shutdown, chCloses, closes, panicked, sret,
                    recvVars, zoneVars, annVars, sent >>

\* if s.shutdown { return nil }
AlreadyShutdown == shutdown

ShutdownCheck(c) ==
    /\ spc[c] = "check"
    /\ IF AlreadyShutdown
       THEN /\ spc' = [spc EXCEPT ![c] = "done"]
            /\ sret' = [sret EXCEPT ![c] = "nil"]
            /\ lock' = IF lock = c THEN 0 ELSE lock
       ELSE /\ spc' = [spc EXCEPT ![c] = "set"]
            /\ UNCHANGED << sret, lock >>
    /\ UNCHANGED << ctorVars, sock, shutdown, chCloses, closes, panicked,
                    recvVars, zoneVars, annVars, sent >>

ShutdownSetNoFlag(c) ==
    /\ spc[c] = "set"
    /\ chCloses' = chCloses + 1
    /\ panicked' = (panicked \/ chCloses > 0)
    /\ spc' = [spc EXCEPT ![c] = "close4"]
    /\ UNCHANGED << ctorVars, sock, shutdown, closes, lock, sret, recvVars,
                    zoneVars, annVars, sent >>

\* s.shutdown = true; close(s.shutdownCh).  Closing a closed channel panics.
ShutdownSet(c) ==
    /\ spc[c] = "set"
    /\ shutdown' = TRUE
    /\ chCloses' = chCloses + 1
    /\ panicked' = (panicked \/ chCloses > 0)
    /\ spc' = [spc EXCEPT ![c] = "close4"]
    /\ UNCHANGED << ctorVars, sock, closes, lock, sret, recvVars, zoneVars,
                    annVars, sent >>

ShutdownClose4NoClose(c) ==
    /\ spc[c] = "close4"
    /\ spc' = [spc EXCEPT ![c] = "close6"]
    /\ UNCHANGED << ctorVars, sock, closes, shutdown, chCloses, panicked, lock,
                    sret, recvVars, zoneVars, annVars, sent >>

\* if s.ipv4List != nil { s.ipv4List.Close() }
ShutdownClose4(c) ==
    /\ spc[c] = "close4"
    /\ IF sock["v4"] # "nil"
       THEN /\ sock' = [sock EXCEPT !["v4"] = "closed"]
            /\ closes' = [closes EXCEPT !["v4"] = @ + 1]
       ELSE UNCHANGED << sock, closes >>
    /\ spc' = [spc EXCEPT ![c] = "close6"]
    /\ UNCHANGED << ctorVars, shutdown, chCloses, panicked, lock, sret,
                    recvVars, zoneVars, annVars, sent >>

ShutdownClose6NoClose(c) ==
    /\ spc[c] = "close6"
    /\ spc' = [spc EXCEPT ![c] = "done"]
    /\ sret' = [sret EXCEPT ![c] = "nil"]
    /\ lock' = IF lock = c THEN 0 ELSE lock
    /\ UNCHANGED << ctorVars, sock, closes, shutdown, chCloses, panicked,
                    recvVars, zoneVars, annVars, sent >>

\* if s.ipv6List != nil { s.ipv6List.Close() }; return nil (the deferred
\* Unlock runs).
ShutdownClose6(c) ==
    /\ spc[c] = "close6"
    /\ IF sock["v6"] # "nil"
       THEN /\ sock' = [sock EXCEPT !["v6"] = "closed"]
            /\ closes' = [closes EXCEPT !["v6"] = @ + 1]
       ELSE UNCHANGED << sock, closes >>
    /\ spc' = [spc EXCEPT ![c] = "done"]
    /\ sret' = [sret EXCEPT ![c] = "nil"]
    /\ lock' = IF lock = c THEN 0 ELSE lock
    /\ UNCHANGED << ctorVars, shutdown, chCloses, panicked, recvVars, zoneVars,
                    annVars, sent >>

(***************************************************************************)
(* recv, parsePacket, handleQuery, sendResponse.                           *)
(***************************************************************************)
\* for !s.shutdown: the flag is read without the mutex.  Until the receiver
\* has synchronised with Shutdown (a read of its closed socket failed), the
\* read may still give the old value.
RecvTest(r) ==
    /\ rpc[r] = "test"
    /\ \E seen \in (IF shutdown /\ ~synced[r] THEN {TRUE, FALSE}
                    ELSE {shutdown}) :
           rpc' = [rpc EXCEPT ![r] = IF seen THEN "exit" ELSE "read"]
    /\ UNCHANGED << ctorVars, sock, shutVars, synced, cur, npkt, hzone, hbuilt,
                    hret, zoneVars, annVars, sent >>

\* c.ReadFrom(buf) returns a datagram.
RecvRead(r, packets, limit) ==
    /\ rpc[r] = "read"
    /\ sock[r] = "open"
    /\ npkt["v4"] + npkt["v6"] < limit
    /\ \E p \in packets : cur' = [cur EXCEPT ![r] = p]
    /\ npkt' = [npkt EXCEPT ![r] = @ + 1]
    /\ rpc' = [rpc EXCEPT ![r] = "parse"]
    /\ UNCHANGED << ctorVars, sock, shutVars, synced, hzone, hbuilt, hret,
                    zoneVars, annVars, sent >>

RecvReadErrExits(r) ==
    /\ rpc[r] = "read"
    /\ rpc' = [rpc EXCEPT ![r] = "exit"]
    /\ UNCHANGED << ctorVars, sock, shutVars, synced, cur, npkt, hzone, hbuilt,
                    hret, zoneVars, annVars, sent >>

\* c.ReadFrom(buf) fails: continue.  On a closed socket it always fails.
RecvReadErr(r) ==
    /\ rpc[r] = "read"
    /\ synced' = [synced EXCEPT ![r] = @ \/ sock[r] = "closed"]
    /\ rpc' = [rpc EXCEPT ![r] = "test"]
    /\ UNCHANGED << ctorVars, sock, shutVars, cur, npkt, hzone, hbuilt, hret,
                    zoneVars, annVars, sent >>

\* parsePacket: msg.Unpack, then handleQuery up to the end of its loop over
\* the questions.
RecvParse(r) ==
    /\ rpc[r] = "parse"
    /\ IF cur[r] = Garbage
       THEN /\ hret' = [hret EXCEPT ![r] = "unpack"]
            /\ rpc' = [rpc EXCEPT ![r] = "ret"]
            /\ UNCHANGED hzone
       ELSE LET v == Validate(cur[r].query) IN
            IF v # "nil"
            THEN /\ hret' = [hret EXCEPT ![r] = v]
                 /\ rpc' = [rpc EXCEPT ![r] = "ret"]
                 /\ UNCHANGED hzone
            ELSE /\ hzone' = [hzone EXCEPT ![r] = cur[r].query.Question]
                 /\ rpc' = [rpc EXCEPT ![r] = "msend"]
                 /\ UNCHANGED hret
    /\ UNCHANGED << ctorVars, sock, shutVars, synced, cur, npkt, hbuilt,
                    zoneVars, annVars, sent >>

SendConnFallback(from) ==
    LET f == IF To4NotNil(from) THEN "v4" ELSE "v6"
        g == IF f = "v4" THEN "v6" ELSE "v4"
    IN IF sock[f] = "nil" THEN g ELSE f

\* sendResponse: the socket to send from.
SendConn(from) == IF To4NotNil(from) THEN "v4" ELSE "v6"

SendAddrUnicastIgnored(from, unicast) ==
    IF To4NotNil(from) THEN ipv4Addr ELSE ipv6Addr

\* sendResponse: the address to send to.
SendAddr(from, unicast) ==
    IF ~unicast
    THEN IF To4NotNil(from) THEN ipv4Addr ELSE ipv6Addr
    ELSE from

\* if mresp := resp(false); mresp != nil { s.sendResponse(mresp, from, false) }
\* and the same for resp(true): build, pack, pick socket and address, write.
RecvSend(r, unicast) ==
    /\ rpc[r] = (IF unicast THEN "usend" ELSE "msend")
    /\ LET query == cur[r].query
           from == cur[r].from
           answers == Accumulate(hzone[r], Len(hzone[r]))
           m == Resp(query, answers, unicast)
           conn == SendConn(from)
           addr == SendAddr(from, unicast)
           next == IF unicast THEN "ret" ELSE "usend"
           failed == IF unicast THEN "send-unicast" ELSE "send-multicast"
       IN IF m = NilMsg
          THEN /\ rpc' = [rpc EXCEPT ![r] = next]
               /\ hret' = [hret EXCEPT ![r] = IF unicast THEN "nil" ELSE @]
               /\ UNCHANGED << hbuilt, sent >>
          ELSE /\ hbuilt' = [hbuilt EXCEPT
                               ![r] = Append(@, [msg |-> m, unicast |-> unicast])]
               /\ \E packOk \in BOOLEAN :
                  \E w \in (IF sock[conn] = "nil" THEN {"err"}
                            ELSE WriteOutcomes(conn)) :
                     IF packOk /\ sock[conn] # "nil" /\ w = "ok"
                     THEN /\ sent' = sent \cup
                                {Datagram(r, npkt[r], conn, addr, Pack(m),
                                          << query.Id >>)}
                          /\ rpc' = [rpc EXCEPT ![r] = next]
                          /\ hret' = [hret EXCEPT
                                        ![r] = IF unicast THEN "nil" ELSE @]
                     ELSE /\ rpc' = [rpc EXCEPT ![r] = "ret"]
                          /\ hret' = [hret EXCEPT ![r] = failed]
                          /\ UNCHANGED sent
    /\ UNCHANGED << ctorVars, sock, shutVars, synced, cur, npkt, hzone,
                    zoneVars, annVars >>

\* parsePacket has returned; recv logs an error and goes round the loop.
RecvRet(r) ==
    /\ rpc[r] = "ret"
    /\ rpc' = [rpc EXCEPT ![r] = "test"]
    /\ cur' = [cur EXCEPT ![r] = NoPacket]
    /\ hzone' = [hzone EXCEPT ![r] = << >>]
    /\ hbuilt' = [hbuilt EXCEPT ![r] = << >>]
    /\ hret' = [hret EXCEPT ![r] = "none"]
    /\ UNCHANGED << ctorVars, sock, shutVars, synced, npkt, zoneVars, annVars,
                    sent >>

(***************************************************************************)
(* Announce, tryAnnounce, announceOnce; the Zone and the clock.            *)
(***************************************************************************)
NothingToAnnounceNever(records) == FALSE

\* if len(records) == 0 { return nil }
NothingToAnnounce(records) == Len(records) = 0

AnnounceMsgNotAuthoritative(records) ==
    [Msg(0, records) EXCEPT !.Authoritative = FALSE]

AnnounceMsgCurrentZone(records) == Msg(0, zoneAnn)

\* announceOnce: the message, with Id 0.
AnnounceMsg(records) == Msg(0, records)

\* The timer created by time.AfterFunc(time.Second*2, tryAnnounce) fires.
TimerFire ==
    /\ timer = "pending"
    /\ clock >= AnnounceDelay
    /\ timer' = "fired"
    /\ apc' = [apc EXCEPT !["timer"] = "ready"]
    /\ UNCHANGED << ctorVars, sock, shutVars, recvVars, zoneVars, clock, arecs,
                    aerr, astart, sent >>

\* announceOnce: Zone.Announcement(), the empty test, msg.Pack().
AnnounceBegin(t) ==
    /\ apc[t] = "ready"
    /\ astart' = [astart EXCEPT ![t] = clock]
    /\ arecs' = [arecs EXCEPT ![t] = zoneAnn]
    /\ IF NothingToAnnounce(zoneAnn)
       THEN /\ aerr' = [aerr EXCEPT ![t] = "nil"]
            /\ apc' = [apc EXCEPT ![t] = "end"]
       ELSE \E packOk \in BOOLEAN :
               IF packOk
               THEN /\ apc' = [apc EXCEPT ![t] = "w4"]
                    /\ UNCHANGED aerr
               ELSE /\ aerr' = [aerr EXCEPT ![t] = "pack"]
                    /\ apc' = [apc EXCEPT ![t] = "end"]
    /\ UNCHANGED << ctorVars, sock, shutVars, recvVars, zoneVars, timer, clock,
                    sent >>

\* if s.ipv4List != nil { s.ipv4List.WriteToUDP(buf, ipv4Addr) }, and the
\* same for ipv6List; a failed write returns the error.
AnnounceWrite(t, f) ==
    /\ apc[t] = (IF f = "v4" THEN "w4" ELSE "w6")
    /\ LET next == IF f = "v4" THEN "w6" ELSE "end"
           group == IF f = "v4" THEN ipv4Addr ELSE ipv6Addr
       IN IF sock[f] # "nil"
          THEN \E w \in WriteOutcomes(f) :
                  IF w = "ok"
                  THEN /\ sent' = sent \cup
                            {Datagram(t, 0, f, group,
                                      Pack(AnnounceMsg(arecs[t])), << >>)}
                       /\ apc' = [apc EXCEPT ![t] = next]
                       /\ aerr' = [aerr EXCEPT
                                     ![t] = IF f = "v6" THEN "nil" ELSE @]
                  ELSE /\ aerr' = [aerr EXCEPT ![t] = "write"]
                       /\ apc' = [apc EXCEPT ![t] = "end"]
                       /\ UNCHANGED sent
          ELSE /\ apc' = [apc EXCEPT ![t] = next]
               /\ aerr' = [aerr EXCEPT ![t] = IF f = "v6" THEN "nil" ELSE @]
               /\ UNCHANGED sent
    /\ UNCHANGED << ctorVars, sock, shutVars, recvVars, zoneVars, timer, clock,
                    arecs, astart >>

AnnounceEndNoStop(t) ==
    /\ apc[t] = "end"
    /\ apc' = [apc EXCEPT ![t] = "done"]
    /\ UNCHANGED << ctorVars, sock, shutVars, recvVars, zoneVars, timer, clock,
                    arecs, aerr, astart, sent >>

\* tryAnnounce after announceOnce: on an error, timer.Stop() and a log line.
AnnounceEnd(t) ==
    /\ apc[t] = "end"
    /\ timer' = IF aerr[t] # "nil" /\ timer = "pending" THEN "stopped"
                ELSE timer
    /\ apc' = [apc EXCEPT ![t] = "done"]
    /\ UNCHANGED << ctorVars, sock, shutVars, recvVars, zoneVars, clock, arecs,
                    aerr, astart, sent >>

\* A run of tryAnnounce that has not yet called Zone.Announcement().
MayStillFetch(t) ==
    /\ apc[t] \in {"none", "ready"}
    /\ ctor \notin Failed
    /\ t = "timer" => timer # "stopped"

\* Time passes (counted until the delay of the timer has elapsed, while a
\* run of tryAnnounce is still to start).
Tick ==
    /\ timer # "none"
    /\ \E t \in Tasks : MayStillFetch(t)
    /\ clock < AnnounceDelay
    /\ clock' = clock + 1
    /\ UNCHANGED << ctorVars, sock, shutVars, recvVars, zoneVars, timer, apc,
                    arecs, aerr, astart, sent >>

\* The Zone changes what Announcement() returns.
ZoneChange ==
    /\ \E t \in Tasks : MayStillFetch(t)
    /\ \E a \in AnnouncementSets \ {zoneAnn} : zoneAnn' = a
    /\ UNCHANGED << ctorVars, sock, shutVars, recvVars, annVars, sent >>

(***************************************************************************)
(* Specifications.                                                         *)
(***************************************************************************)
\* The server from NewServer on, with its receivers, announcements, the
\* callers of Shutdown, the Zone and the clock.
Next ==
    \/ Listen
    \/ \E f \in Fam : SetMulticastLoopback(f)
    \/ CheckAndStart
    \/ Announce
    \/ \E c \in Callers : ShutdownLock(c)
    \/ \E c \in Callers : ShutdownCheck(c)
    \/ \E c \in Callers : ShutdownSet(c)
    \/ \E c \in Callers : ShutdownClose4(c)
    \/ \E c \in Callers : ShutdownClose6(c)
    \/ \E r \in Fam : RecvTest(r)
    \/ \E r \in Fam : RecvRead(r, SystemPackets, MaxPackets)
    \/ \E r \in Fam : RecvReadErr(r)
    \/ \E r \in Fam : RecvParse(r)
    \/ \E r \in Fam : \E unicast \in BOOLEAN : RecvSend(r, unicast)
    \/ \E r \in Fam : RecvRet(r)
    \/ TimerFire
    \/ \E t \in Tasks : AnnounceBegin(t)
    \/ \E t \in Tasks : \E f \in Fam : AnnounceWrite(t, f)
    \/ \E t \in Tasks : AnnounceEnd(t)
    \/ Tick

Spec == Init /\ [][Next]_vars

\* The server without a call of Shutdown: NewServer, the receivers and the
\* two runs of tryAnnounce.  (Shutdown acts on them only by closing the
\* sockets, which makes reads and writes fail; here they may fail anyway.)
NextServe ==
    \/ Listen
    \/ \E f \in Fam : SetMulticastLoopback(f)
    \/ CheckAndStart
    \/ Announce
    \/ \E r \in Fam : RecvTest(r)
    \/ \E r \in Fam : RecvRead(r, SystemPackets, MaxPackets)
    \/ \E r \in Fam : RecvReadErr(r)
    \/ \E r \in Fam : RecvParse(r)
    \/ \E r \in Fam : \E unicast \in BOOLEAN : RecvSend(r, unicast)
    \/ \E r \in Fam : RecvRet(r)
    \/ TimerFire
    \/ \E t \in Tasks : AnnounceBegin(t)
    \/ \E t \in Tasks : \E f \in Fam : AnnounceWrite(t, f)
    \/ \E t \in Tasks : AnnounceEnd(t)
    \/ Tick

SpecServe == Init /\ [][NextServe]_vars

\* The server and the callers of Shutdown, with the receivers; the runs of
\* tryAnnounce, which neither read nor write what Shutdown and recv use but
\* the sockets, are left out.
NextShutdown ==
    \/ Listen
    \/ \E f \in Fam : SetMulticastLoopback(f)
    \/ CheckAndStart
    \/ Announce
    \/ \E c \in Callers : ShutdownLock(c)
    \/ \E c \in Callers : ShutdownCheck(c)
    \/ \E c \in Callers : ShutdownSet(c)
    \/ \E c \in Callers : ShutdownClose4(c)
    \/ \E c \in Callers : ShutdownClose6(c)
    \/ \E r \in Fam : RecvTest(r)
    \/ \E r \in Fam : RecvRead(r, SystemPackets, MaxPackets)
    \/ \E r \in Fam : RecvReadErr(r)
    \/ \E r \in Fam : RecvParse(r)
    \/ \E r \in Fam : \E unicast \in BOOLEAN : RecvSend(r, unicast)
    \/ \E r \in Fam : RecvRet(r)

SpecShutdown == Init /\ [][NextShutdown]_vars

\* A call of Shutdown, once it holds the mutex, runs to its return.
ShutdownStep(c) ==
    \/ ShutdownCheck(c)
    \/ ShutdownSet(c)
    \/ ShutdownClose4(c)
    \/ ShutdownClose6(c)

\* The goroutine of recv keeps running: the loop test, the handling of a
\* packet it has read, and a ReadFrom on a closed socket, which returns an
\* error at once.  A ReadFrom on an open socket may block for ever.
RecvStep(r) ==
    \/ RecvTest(r)
    \/ RecvParse(r)
    \/ \E unicast \in BOOLEAN : RecvSend(r, unicast)
    \/ RecvRet(r)
    \/ (sock[r] = "closed" /\ RecvReadErr(r))

\* The server, the callers of Shutdown and the receivers under the fair
\* scheduling of goroutines.
SpecShutdownFair ==
    /\ Init /\ [][NextShutdown]_vars
    /\ \A c \in Callers : WF_vars(ShutdownStep(c))
    /\ \A r \in Fam : WF_vars(RecvStep(r))

\* NewServer and the two runs of tryAnnounce, with a Zone that may change
\* its announcement set; no packet arrives and Shutdown is not called.
NextAnnounce ==
    \/ Listen
    \/ \E f \in Fam : SetMulticastLoopback(f)
    \/ CheckAndStart
    \/ Announce
    \/ TimerFire
    \/ \E t \in Tasks : AnnounceBegin(t)
    \/ \E t \in Tasks : \E f \in Fam : AnnounceWrite(t, f)
    \/ \E t \in Tasks : AnnounceEnd(t)
    \/ Tick
    \/ ZoneChange

SpecAnnounce == Init /\ [][NextAnnounce]_vars

\* A running server whose announcements are over (the Zone had nothing to
\* announce), handling one packet of any kind.
InitQuery ==
    /\ ctor = "returned"
    /\ sock \in { s \in [Fam -> {"nil", "open"}] : \E f \in Fam : s[f] = "open" }
    /\ shutdown = FALSE
    /\ chCloses = 0
    /\ closes = [f \in Fam |-> 0]
    /\ panicked = FALSE
    /\ lock = 0
    /\ spc = [c \in Callers |-> "idle"]
    /\ sret = [c \in Callers |-> "none"]
    /\ rpc = [f \in Fam |-> IF sock[f] = "open" THEN "test" ELSE "off"]
    /\ synced = [f \in Fam |-> FALSE]
    /\ cur = [f \in Fam |-> NoPacket]
    /\ npkt = [f \in Fam |-> 0]
    /\ hzone = [f \in Fam |-> << >>]
    /\ hbuilt = [f \in Fam |-> << >>]
    /\ hret = [f \in Fam |-> "none"]
    /\ zoneAnn = << >>
    /\ timer = "fired"
    /\ clock = AnnounceDelay
    /\ apc = [t \in Tasks |-> "done"]
    /\ arecs = [t \in Tasks |-> << >>]
    /\ aerr = [t \in Tasks |-> "nil"]
    /\ astart = [t \in Tasks |-> IF t = "imm" THEN 0 ELSE AnnounceDelay]
    /\ sent = {}

NextQuery ==
    \/ \E r \in Fam : RecvTest(r)
    \/ \E r \in Fam : RecvRead(r, AllPackets, 1)
    \/ \E r \in Fam : RecvReadErr(r)
    \/ \E r \in Fam : RecvParse(r)
    \/ \E r \in Fam : \E unicast \in BOOLEAN : RecvSend(r, unicast)
    \/ \E r \in Fam : RecvRet(r)

SpecQuery == InitQuery /\ [][NextQuery]_vars

\* A running server whose receivers read several datagrams one after the
\* other, with the callers of Shutdown.
NextLoop ==
    \/ \E c \in Callers : ShutdownLock(c)
    \/ \E c \in Callers : ShutdownCheck(c)
    \/ \E c \in Callers : ShutdownSet(c)
    \/ \E c \in Callers : ShutdownClose4(c)
    \/ \E c \in Callers : ShutdownClose6(c)
    \/ \E r \in Fam : RecvTest(r)
    \/ \E r \in Fam : RecvRead(r, SystemPackets, MaxLoopPackets)
    \/ \E r \in Fam : RecvReadErr(r)
    \/ \E r \in Fam : RecvParse(r)
    \/ \E r \in Fam : \E unicast \in BOOLEAN : RecvSend(r, unicast)
    \/ \E r \in Fam : RecvRet(r)

SpecLoop == InitQuery /\ [][NextLoop]_vars

(***************************************************************************)
(* Properties.                                                             *)
(***************************************************************************)
Groups == {ipv4Addr, ipv6Addr}

\* The receiver holds a decoded query.
Handling(r) == cur[r] # NoPacket /\ cur[r] # Garbage

\* The receiver's handleQuery is past its validation.
PastValidation(r) == Handling(r) /\ rpc[r] \in {"msend", "usend", "ret"}

\* The datagrams written for the packet the receiver is handling.
SentFor(r) == { d \in sent : d.by = r /\ d.pkt = npkt[r] }

Inadmissible(query) ==
    query.Opcode # 0 \/ query.Rcode # 0 \/ query.Truncated = TRUE

\* Bit 15 of a 16-bit class field.
Bit15(qclass) == qclass >= 32768

\* C1: a query with a non-zero opcode, a non-zero response code or the
\* truncated flag makes handleQuery return an error, without any question
\* given to the Zone, any response built or any datagram written.
C1_InadmissibleQueryRejected ==
    \A r \in Fam :
        (PastValidation(r) /\ Inadmissible(cur[r].query)) =>
            /\ rpc[r] = "ret"
            /\ hret[r] \in {"opcode", "rcode", "truncated"}
            /\ hzone[r] = << >>
            /\ hbuilt[r] = << >>
            /\ SentFor(r) = {}
            /\ sent = {}

C1_Witness ==
    \E r \in Fam :
        /\ rpc[r] = "ret" /\ Handling(r)
        /\ cur[r].query.Truncated /\ cur[r].query.Opcode = 0
        /\ cur[r].query.Rcode = 0
        /\ Len(cur[r].query.Question) = 2
        /\ Len(ZoneRecords(cur[r].query.Question[1])) > 0
        /\ hret[r] = "truncated"

\* C2: for a question the Zone has records for, handleQuestion gives all of
\* them as unicast records and none as multicast records when bit 15 of the
\* class is set, and all as multicast and none as unicast when it is clear.
C2_QuestionRoutedOneWay ==
    \A r \in Fam :
        PastValidation(r) =>
            \A i \in 1..Len(hzone[r]) :
                LET q == hzone[r][i]
                    out == HandleQuestion(q)
                IN Len(ZoneRecords(q)) > 0 =>
                     IF Bit15(q.Qclass)
                     THEN /\ out.unicastRecs = ZoneRecords(q)
                          /\ out.multicastRecs = << >>
                     ELSE /\ out.multicastRecs = ZoneRecords(q)
                          /\ out.unicastRecs = << >>

C2_Witness ==
    \E r \in Fam :
        /\ PastValidation(r)
        /\ Len(hzone[r]) = 2
        /\ Bit15(hzone[r][1].Qclass) /\ ~Bit15(hzone[r][2].Qclass)
        /\ Len(ZoneRecords(hzone[r][1])) = 2
        /\ Len(ZoneRecords(hzone[r][2])) = 1

\* An admissible query with exactly one question, which the Zone has records
\* for, and handleQuery has returned.
OneMatchingQuestionDone(r) ==
    /\ Handling(r)
    /\ rpc[r] = "ret"
    /\ ~Inadmissible(cur[r].query)
    /\ Len(cur[r].query.Question) = 1
    /\ Len(ZoneRecords(cur[r].query.Question[1])) > 0

\* The header of a response to the query, as wanted for the way it is sent.
ResponseHeaderFor(wire, query, unicast) ==
    /\ wire.qr = 1 /\ wire.opcode = 0 /\ wire.aa = 1
    /\ wire.id = (IF unicast THEN query.Id ELSE 0)

\* C3 as stated: such a query gets exactly one response emitted.
C3_ExactlyOneResponseEmitted ==
    \A r \in Fam :
        OneMatchingQuestionDone(r) =>
            LET query == cur[r].query
                unicast == Bit15(query.Question[1].Qclass)
            IN /\ Cardinality(SentFor(r)) = 1
               /\ \A d \in SentFor(r) :
                     /\ ResponseHeaderFor(d.wire, query, unicast)
                     /\ d.dst \in Groups <=> ~unicast

\* C3 amended: such a query gets exactly one response built (Response,
\* Opcode 0, Authoritative, id 0 for multicast or the query id for unicast)
\* and handed to sendResponse once; one datagram is written when
\* sendResponse succeeds, none when it fails, and never a second one.
C3_OneResponseBuiltAtMostOneSent ==
    \A r \in Fam :
        OneMatchingQuestionDone(r) =>
            LET query == cur[r].query
                unicast == Bit15(query.Question[1].Qclass)
            IN /\ Len(hbuilt[r]) = 1
               /\ hbuilt[r][1].unicast = unicast
               /\ hbuilt[r][1].msg.Response = TRUE
               /\ hbuilt[r][1].msg.Opcode = 0
               /\ hbuilt[r][1].msg.Authoritative = TRUE
               /\ hbuilt[r][1].msg.Id = (IF unicast THEN query.Id ELSE 0)
               /\ Cardinality(SentFor(r)) <= 1
               /\ hret[r] = "nil" <=> Cardinality(SentFor(r)) = 1
               /\ hret[r] # "nil" =>
                     hret[r] = (IF unicast THEN "send-unicast"
                                ELSE "send-multicast")
               /\ \A d \in SentFor(r) :
                     /\ ResponseHeaderFor(d.wire, query, unicast)
                     /\ d.wire.answer = ZoneRecords(query.Question[1])
                     /\ d.dst = (IF unicast THEN cur[r].from
                                 ELSE IF To4NotNil(cur[r].from) THEN ipv4Addr
                                 ELSE ipv6Addr)

C3_Witness ==
    \E r \in Fam :
        /\ OneMatchingQuestionDone(r)
        /\ Bit15(cur[r].query.Question[1].Qclass)
        /\ cur[r].query.Id = 7
        /\ hret[r] = "nil"
        /\ Cardinality(SentFor(r)) = 1

\* C4: every datagram written, for a query or as an announcement, is a
\* response with opcode 0, authoritative, not truncated, no recursion bits
\* and rcode 0; sent to a multicast group it has id 0 (whatever the query's
\* id), sent to a querier's address it has the id of the query it answers.
C4_EveryMessageHeader ==
    \A d \in sent :
        /\ d.wire.qr = 1 /\ d.wire.opcode = 0 /\ d.wire.aa = 1
        /\ d.wire.tc = 0 /\ d.wire.rd = 0 /\ d.wire.ra = 0
        /\ d.wire.rcode = 0
        /\ d.dst \in Groups => d.wire.id = 0
        /\ d.dst \notin Groups => d.cause = << d.wire.id >>
        /\ d.by \in Tasks => d.dst \in Groups

C4_Witness ==
    /\ \E d \in sent : d.by \in Tasks /\ d.dst = ipv6Addr
    /\ \E d \in sent : d.by \in Fam /\ d.dst \notin Groups /\ d.wire.id = 7

\* C5: no datagram has an empty answer list; handleQuery builds a response
\* only from a non-empty answer sequence; with a Zone whose announcement set
\* is empty neither run of tryAnnounce writes a datagram.
C5_NoEmptyAnswerSent ==
    /\ \A d \in sent : Len(d.wire.answer) > 0
    /\ \A r \in Fam : \A i \in 1..Len(hbuilt[r]) :
           Len(hbuilt[r][i].msg.Answer) > 0
    /\ zoneAnn = << >> => \A d \in sent : d.by \notin Tasks
    /\ \A t \in Tasks :
           (apc[t] \in {"w4", "w6", "end", "done"} /\ arecs[t] = << >>) =>
               /\ apc[t] \in {"end", "done"}
               /\ { d \in sent : d.by = t } = {}

C5_Witness ==
    /\ zoneAnn = << >>
    /\ \A t \in Tasks : apc[t] = "done"
    /\ \E r \in Fam : /\ rpc[r] = "ret" /\ hret[r] = "nil"
                      /\ Len(hbuilt[r]) = 1
                      /\ Cardinality(sent) = 1

\* C6: under concurrent and sequential callers of Shutdown each socket is
\* closed at most once, the channel is closed at most once (no panic), every
\* call returns nil, and once a call has returned the flag is true.
C6_ShutdownIdempotent ==
    /\ \A f \in Fam : closes[f] <= 1
    /\ chCloses <= 1
    /\ ~panicked
    /\ \A c \in Callers : sret[c] \in {"none", "nil"}
    /\ \A c \in Callers : spc[c] = "done" => sret[c] = "nil"
    /\ (\E c \in Callers : spc[c] = "done") => shutdown

C6_Witness ==
    /\ \A c \in Callers : spc[c] = "done" /\ sret[c] = "nil"
    /\ \A f \in Fam : closes[f] = 1
    /\ chCloses = 1

ShutdownReturned == \E c \in Callers : spc[c] = "done"

\* C7: once a call of Shutdown has returned no datagram is written any more,
\* neither by a receiver still handling a packet nor by a run of tryAnnounce.
C7_NoSendAfterShutdown == [][ShutdownReturned => sent' = sent]_vars

C7_Witness ==
    /\ ShutdownReturned
    /\ \E r \in Fam : /\ rpc[r] = "ret" /\ Handling(r)
                      /\ hret[r] \in {"send-multicast", "send-unicast"}
                      /\ sock[SendConn(cur[r].from)] = "closed"
    /\ apc["timer"] = "done" /\ aerr["timer"] = "write"
    /\ { d \in sent : d.by = "timer" } = {}

\* The datagrams of one run of tryAnnounce are one announcement on every
\* present socket, to the group of the socket's family, with id 0 and
\* authoritative.
AnnouncedOnce(t) ==
    /\ \A f \in Fam :
           Cardinality({ d \in sent : d.by = t /\ d.conn = f }) =
               (IF sock[f] = "nil" THEN 0 ELSE 1)
    /\ \A d \in sent :
           d.by = t => /\ d.wire.id = 0 /\ d.wire.aa = 1 /\ d.wire.qr = 1
                       /\ d.dst = (IF d.conn = "v4" THEN ipv4Addr ELSE ipv6Addr)

\* C8 as stated: with a non-empty announcement set and no send failing, one
\* call of Announce gives exactly two announcements, both with id 0 and
\* authoritative, and the second begins after the first, no earlier than the
\* 2-second delay after it.
C8_TwoAnnouncementsDelayApart ==
    ( /\ \A t \in Tasks : apc[t] = "done" /\ aerr[t] = "nil"
      /\ \A u \in Tasks : arecs[u] # << >> ) =>
        /\ \A v \in Tasks : AnnouncedOnce(v)
        /\ astart["timer"] >= astart["imm"] + AnnounceDelay

\* C9: when NewServer has returned a Server one of its sockets is present;
\* with neither socket bound it returns an error; when it returns an error
\* no receiver runs, nothing was sent and no timer or announcement exists.
C9_ListenerOrError ==
    /\ ctor = "returned" => \E f \in Fam : sock[f] # "nil"
    /\ (sock["v4"] = "nil" /\ sock["v6"] = "nil") =>
           ctor \in {"loop4", "loop6", "check"} \cup Failed
    /\ ctor \in Failed =>
           /\ \A f \in Fam : rpc[f] = "off"
           /\ sent = {}
           /\ timer = "none"
           /\ \A t \in Tasks : apc[t] = "none"

C9_Witness ==
    /\ ctor = "failed-nolistener"
    /\ sock["v4"] = "nil" /\ sock["v6"] = "nil"

\* SetMulticastLoopback failed on the listener that was bound.
BoundLoopbackFailed ==
    \/ ctor = "failed-loopback4" /\ sock["v4"] # "nil"
    \/ ctor = "failed-loopback6" /\ sock["v6"] # "nil"

\* C10 as stated: with exactly one family bound NewServer succeeds, holds
\* the bound socket and a nil one, has started the one receiver for the
\* present socket, and has triggered the announcement.  (A failure to set
\* the loopback option on the bound socket is left aside: the statement
\* fails without it.)
C10_OneFamilySucceeds ==
    ( /\ ctor \in {"returned"} \cup Failed
      /\ Cardinality({ f \in Fam : sock[f] = "nil" }) = 1
      /\ ~BoundLoopbackFailed ) =>
        /\ ctor = "returned"
        /\ \A f \in Fam : rpc[f] = "off" <=> sock[f] = "nil"
        /\ timer # "none"
        /\ apc["imm"] # "none"

\* Shutdown has been called: a caller is inside it or has returned from it.
ShutdownCalled == \E c \in Callers : spc[c] # "idle"

\* Every receiver loop that was started has left its loop.
ReceiversTerminated == \A r \in Fam : rpc[r] \in {"off", "exit"}

\* C11: once Shutdown has been called every receiver loop terminates, under
\* fair scheduling, wherever it was: blocked in a read, between a failed read
\* and the loop test, or handling a packet.
C11_ReceiversEventuallyTerminate == ShutdownCalled ~> ReceiversTerminated

C11_Witness ==
    /\ \A c \in Callers : spc[c] = "done"
    /\ \A r \in Fam : rpc[r] = "exit"
    /\ \E r \in Fam : synced[r] /\ npkt[r] = 1
    /\ \E r \in Fam : ~synced[r]

\* The two answer sequences of the query the receiver is handling.
AnswersOf(r) == Accumulate(cur[r].query.Question, Len(cur[r].query.Question))

\* handleQuery has returned for an admissible query with answers of both
\* kinds.
ReturnedWithBothKinds(r) ==
    /\ Handling(r) /\ rpc[r] = "ret"
    /\ ~Inadmissible(cur[r].query)
    /\ Len(AnswersOf(r).multicastAnswer) > 0
    /\ Len(AnswersOf(r).unicastAnswer) > 0

\* C12 as stated: when a query gives a non-empty multicast and a non-empty
\* unicast answer sequence, both responses are handed to sendResponse, also
\* when the send of one of them fails.
C12_BothSendsAttempted ==
    \A r \in Fam :
        ReturnedWithBothKinds(r) =>
            /\ Len(hbuilt[r]) = 2
            /\ \E i \in 1..2 : ~hbuilt[r][i].unicast
            /\ \E i \in 1..2 : hbuilt[r][i].unicast

\* announceOnce of run t has returned an error that tryAnnounce has not yet
\* handled.
AnnounceFailed(t) == apc[t] = "end" /\ aerr[t] \in {"pack", "write"}

\* C13 as stated: when the immediate attempt has failed while the delayed
\* announcement is still pending, the delayed announcement never runs.
C13_FailedImmediateCancelsDelayed ==
    [][(AnnounceFailed("imm") /\ timer = "pending") => timer' # "fired"]_vars

\* C13: when tryAnnounce handles the error of a failed attempt (timer.Stop())
\* and the timer is still pending, the timer is stopped; a stopped timer stays
\* stopped, its run of tryAnnounce never starts and writes nothing; a timer
\* that has fired does not fire again; no step of an announcement changes the
\* sockets, the shutdown state or the receivers.
C13_StopCancelsPendingTimer ==
    [][ /\ \A t \in Tasks :
             (AnnounceFailed(t) /\ apc'[t] = "done" /\ timer = "pending") =>
                 timer' = "stopped"
        /\ timer = "stopped" =>
               /\ timer' = "stopped"
               /\ apc'["timer"] = "none"
               /\ { d \in sent' : d.by = "timer" } = {}
        /\ timer = "fired" => timer' = "fired"
        /\ apc["timer"] = "done" => apc'["timer"] = "done"
        /\ (apc' # apc \/ aerr' # aerr \/ timer' # timer) =>
               UNCHANGED << sock, shutVars, recvVars >>
      ]_vars

C13_Witness ==
    /\ timer = "stopped"
    /\ apc["imm"] = "done" /\ aerr["imm"] = "write"
    /\ \E d \in sent : d.by = "imm" /\ d.conn = "v4"
    /\ apc["timer"] = "none"
    /\ sock["v6"] = "open" /\ ~shutdown
    /\ \E r \in Fam : rpc[r] = "parse"

\* C14 as stated: with both sockets present, an announcement attempt that
\* has packed its message and is at the write on the v4 socket goes on to the
\* write on the v6 socket, whether the v4 write fails or not.
C14_BothGroupsAttempted ==
    [][ \A t \in Tasks :
          ( /\ apc[t] = "w4" /\ apc'[t] # "w4"
            /\ arecs[t] # << >>
            /\ \A f \in Fam : sock[f] # "nil" ) =>
              apc'[t] = "w6"
      ]_vars

\* The run of tryAnnounce has called Zone.Announcement().
Fetched(t) == apc[t] \notin {"none", "ready"}

\* C15 as stated: the announcement set is fetched once for one call of
\* Announce, so both attempts carry the same record set, whatever the Zone
\* does in between.
C15_SecondIdenticalToFirst ==
    /\ (\A t \in Tasks : Fetched(t)) => arecs["imm"] = arecs["timer"]
    /\ \A d, e \in sent :
           (d.by \in Tasks /\ e.by \in Tasks) => d.wire.answer = e.wire.answer

\* C15: each attempt fetches the announcement set once, when it begins: it
\* takes what the Zone returns then, keeps it to its end, and every datagram
\* of the attempt carries exactly that set.
C15_EachAttemptFetchesOnce ==
    [][ \A t \in Tasks :
          /\ (~Fetched(t) /\ Fetched(t)') => arecs'[t] = zoneAnn
          /\ Fetched(t) => arecs'[t] = arecs[t]
          /\ \A d \in sent' : d.by = t => d.wire.answer = arecs'[t]
      ]_vars

C15_Witness ==
    /\ \A t \in Tasks : apc[t] = "done" /\ aerr[t] = "nil"
    /\ arecs["imm"] # << >>
    /\ arecs["timer"] = << >>
    /\ \E d \in sent : d.by = "imm" /\ d.wire.answer = arecs["imm"]
    /\ { d \in sent : d.by = "timer" } = {}

\* The address family of a sender: IPv4 or, otherwise, IPv6.
FamilyOf(addr) == IF addr.IP \in V4IPs THEN "v4" ELSE "v6"

\* The multicast group of a family.
GroupOf(f) == IF f = "v4" THEN ipv4Addr ELSE ipv6Addr

\* C16: a response to a query is written on the socket of the sender's
\* family; a unicast response goes to the sender's own address and port, a
\* multicast response to the group of the sender's family; never on the
\* other family's socket, never to the other family's group.
C16_SocketByFamilyAddressByTag ==
    \A r \in Fam :
        Handling(r) =>
            \A d \in SentFor(r) :
                LET from == cur[r].from IN
                /\ d.conn = FamilyOf(from)
                /\ d.seq \in 1..Len(hbuilt[r])
                /\ d.dst = (IF hbuilt[r][d.seq].unicast THEN from
                            ELSE GroupOf(FamilyOf(from)))
                /\ d.dst # GroupOf(IF FamilyOf(from) = "v4" THEN "v6" ELSE "v4")

C16_Witness ==
    \E r \in Fam :
        /\ Handling(r) /\ rpc[r] = "ret" /\ hret[r] = "nil"
        /\ cur[r].from.IP = "fe80::1"
        /\ \E d \in SentFor(r) : d.conn = "v6" /\ d.dst = ipv6Addr
        /\ \E d \in SentFor(r) : d.conn = "v6" /\ d.dst = cur[r].from

\* The receiver is at a send of handleQuery for a sender whose family has no
\* socket.
AtSendWithoutSocket(r) ==
    /\ Handling(r)
    /\ rpc[r] \in {"msend", "usend"}
    /\ sock[FamilyOf(cur[r].from)] = "nil"

\* C17: when the socket of the sender's family is absent, a response handed
\* to sendResponse makes it return an error; nothing is written on any
\* socket, the sockets and the shutdown state are unchanged, the other
\* receiver is not affected and this one goes back to its loop.
C17_AbsentSocketIsAnError ==
    [][ \A r \in Fam :
          (AtSendWithoutSocket(r) /\ Len(hbuilt'[r]) > Len(hbuilt[r])) =>
              /\ hret'[r] \in {"send-multicast", "send-unicast"}
              /\ rpc'[r] = "ret"
              /\ sent' = sent
              /\ UNCHANGED << sock, shutVars >>
              /\ \A q \in Fam \ {r} : rpc'[q] = rpc[q]
      ]_vars

C17_Witness ==
    \E r \in Fam :
        /\ Handling(r) /\ rpc[r] = "ret"
        /\ cur[r].from.IP = "fe80::1"
        /\ sock["v6"] = "nil" /\ sock["v4"] = "open"
        /\ Len(hbuilt[r]) = 1
        /\ hret[r] = "send-multicast"
        /\ sent = {}
        /\ ~shutdown

\* C18: while Shutdown has not been requested no receiver loop has left its
\* loop; a failed read, a packet that does not decode, a rejected query or a
\* failed send takes the receiver back to the loop test and from there to
\* the next read, and no step of a receiver changes the sockets or the
\* shutdown state.
C18_LoopStopsOnlyOnShutdown ==
    [][ \A r \in Fam :
          /\ ~shutdown' => rpc'[r] # "exit"
          /\ (~shutdown /\ rpc[r] = "read" /\ rpc'[r] # "read") =>
                 rpc'[r] \in {"parse", "test"}
          /\ (rpc[r] = "ret" /\ rpc'[r] # "ret") => rpc'[r] = "test"
          /\ (~shutdown /\ rpc[r] = "test" /\ rpc'[r] # "test") =>
                 rpc'[r] = "read"
          /\ rpc'[r] # rpc[r] => UNCHANGED << sock, shutVars >>
      ]_vars

\* A receiver whose first packet ended in an error (nothing was written for
\* it) has answered its second packet.
C18_Witness ==
    /\ ~shutdown
    /\ \E r \in Fam :
          /\ npkt[r] = 2
          /\ { d \in sent : d.by = r /\ d.pkt = 1 } = {}
          /\ \E d \in sent : d.by = r /\ d.pkt = 2
          /\ sock[r] = "open"

\* The receiver's ReadFrom returns an error in this step.
ReadFails(r) == rpc[r] = "read" /\ rpc'[r] = "test"

\* C19: once Shutdown has set the flag and closed the receiver's socket, the
\* receiver (which reads the flag without the mutex and may have seen it
\* late) makes at most one more read, which fails, leaves its loop at the
\* next test, and reads no further packet.
C19_AtMostOneFailedReadAfterClose ==
    [][ \A r \in Fam :
          sock[r] = "closed" =>
              /\ shutdown
              /\ npkt'[r] = npkt[r]
              /\ ReadFails(r) => (~synced[r] /\ synced'[r])
              /\ (synced[r] /\ rpc[r] = "test" /\ rpc'[r] # "test") =>
                     rpc'[r] = "exit"
              /\ rpc[r] = "exit" => rpc'[r] = "exit"
      ]_vars

C19_Witness ==
    \E r \in Fam :
        /\ rpc[r] = "exit"
        /\ sock[r] = "closed"
        /\ synced[r]
        /\ npkt[r] = 0

\* The Zone's records for a sequence of questions, one after the other.
RECURSIVE RecordsInOrder(_)
RecordsInOrder(qs) ==
    IF qs = << >> THEN << >>
    ELSE ZoneRecords(Head(qs)) \o RecordsInOrder(Tail(qs))

\* The questions with the unicast bit (wanted = TRUE) or without it.
QuestionsTagged(qs, wanted) ==
    SelectSeq(qs, LAMBDA q : Bit15(q.Qclass) = wanted)

\* The answer sequence the statement describes.
ExpectedAnswer(qs, unicast) == RecordsInOrder(QuestionsTagged(qs, unicast))

\* C20: for an admissible query the multicast (unicast) answer sequence is
\* the concatenation, in question order, of the Zone's records for the
\* questions without (with) the unicast bit, duplicates kept; every response
\* built carries exactly that sequence, and at most two responses are built,
\* at most one of each kind, the multicast one first.
C20_AnswersInQuestionOrder ==
    \A r \in Fam :
        (PastValidation(r) /\ ~Inadmissible(cur[r].query)) =>
            LET qs == cur[r].query.Question IN
            /\ hzone[r] = qs
            /\ AnswersOf(r).multicastAnswer = ExpectedAnswer(qs, FALSE)
            /\ AnswersOf(r).unicastAnswer = ExpectedAnswer(qs, TRUE)
            /\ Len(hbuilt[r]) <= 2
            /\ \A i \in 1..Len(hbuilt[r]) :
                   hbuilt[r][i].msg.Answer =
                       ExpectedAnswer(qs, hbuilt[r][i].unicast)
            /\ \A i, j \in 1..Len(hbuilt[r]) :
                   i < j => (~hbuilt[r][i].unicast /\ hbuilt[r][j].unicast)
            /\ \A d \in SentFor(r) :
                   \E unicast \in BOOLEAN :
                       d.wire.answer = ExpectedAnswer(qs, unicast)

C20_Witness ==
    \E r \in Fam :
        /\ Handling(r) /\ rpc[r] = "ret" /\ hret[r] = "nil"
        /\ Len(cur[r].query.Question) = 2
        /\ Len(hbuilt[r]) = 1
        /\ hbuilt[r][1].msg.Answer = << "A:foo", "A:foo" >>
        /\ \E d \in SentFor(r) : d.wire.answer = << "A:foo", "A:foo" >>

====
